---- MODULE Spec2Model ----
(***************************************************************************)
(* Model of vacuum_map_parser_xiaomi: the pixel classifier                 *)
(* (XiaomiImageParser.parse), the yaw normalisation and the JSON payload   *)
(* assembler (XiaomiMapDataParser._parse_json_payload).                    *)
(***************************************************************************)
EXTENDS Integers, Sequences, FiniteSets, TLC

(***************************************************************************)
(* Bounds of the model.                                                    *)
(***************************************************************************)
\* largest number of bytes in a pixel buffer handed to XiaomiImageParser.parse
MaxPixels == 4
\* yaw inputs cover every whole number of degrees (and of radians) up to this
MaxYaw == 200
\* most entries of map_room_info read in one parse
MaxInfo == 3
\* most entries of room_attrs read in one parse
MaxAttrs == 1
\* most entries of fb_regions read in one parse
MaxRegions == 1
\* parse calls made on one parser object
MaxParses == 3
\* most bytes handed to _normalize_json_map_pixels on its own
MaxRaw == 2

(***************************************************************************)
(* Program constants of XiaomiImageParser.                                 *)
(***************************************************************************)
MAP_OUTSIDE == 0
MAP_WALL == 128
MAP_INSIDE == 127
MAP_SCAN == 1
MAP_NEW_DISCOVERED_AREA == 2
MAP_ROOM_MIN == 10
MAP_ROOM_MAX == 59
MAP_SELECTED_ROOM_MIN == 60
MAP_SELECTED_ROOM_MAX == 109

\* an absent value is the empty tuple; a present one is a non-empty tuple
None == <<>>

Min(a, b) == IF a <= b THEN a ELSE b
Max(a, b) == IF a >= b THEN a ELSE b

(***************************************************************************)
(* Inputs of the classifier: pixel bytes and trim configurations           *)
(* (left, right, top, bottom, in percent).                                 *)
(***************************************************************************)
PixelBytes == {0, 10, 59, 60, 109, 200}

TrimConfigs ==
    { [left |-> 0,  right |-> 0,  top |-> 0,  bottom |-> 0],
      [left |-> 50, right |-> 0,  top |-> 0,  bottom |-> 0],
      [left |-> 0,  right |-> 0,  top |-> 0,  bottom |-> 50],
      [left |-> 50, right |-> 50, top |-> 0,  bottom |-> 0],
      [left |-> 0,  right |-> 0,  top |-> 50, bottom |-> 50],
      [left |-> 34, right |-> 0,  top |-> 0,  bottom |-> 34] }

Shapes == { s \in (1..MaxPixels) \X (1..MaxPixels) : s[1] * s[2] <= MaxPixels }

VARIABLES
    \* ---- XiaomiImageParser.parse
    map_data,        \* the row-major byte buffer (1-based sequence)
    width, height,   \* its dimensions
    trim,            \* self._image_config.trim
    ipc,             \* position in parse: "start", "scan", "done", "idle"
    img_x, img_y,    \* loop variables of the scan
    rooms,           \* room number -> <<min_x, min_y, max_x, max_y>>
    room_order,      \* the keys of rooms in the dict's (insertion) order
    cleaned_areas,   \* set of room numbers
    unknown_pixels,  \* set of raw pixel values
    pixels,          \* <<x, y>> -> colour written to the image
    writes,          \* <<x, y>> -> number of assignments to pixels[x, y]
    image,           \* None, or <<w, h>> once the image exists
    \* ---- XiaomiMapDataParser._json_yaw_to_degrees
    yaw,             \* the argument
    angle,           \* the value returned, in thousandths of a degree
    ypc              \* "call", "done", "idle"

imgVars == <<map_data, width, height, trim, ipc, img_x, img_y, rooms,
             room_order, cleaned_areas, unknown_pixels, pixels, writes, image>>

yawVars == <<yaw, angle, ypc>>

(***************************************************************************)
(* State of one _parse_json_payload call and of the parser object.         *)
(***************************************************************************)
VARIABLES
    profile,            \* which family of payloads this run explores
    payload,            \* the header fields of the payload
    payload_paths,      \* the payload's "paths", drawn when line 406 reads it
    jpc,                \* position in _parse_json_payload
    jerror,             \* None, or the exception that left the call
    robot_map,          \* self.robot_map
    coord_transformer,  \* self.coord_transformer
    grid_to_room,       \* local dict
    room_to_grid,       \* local dict
    n_info,             \* entries of map_room_info read so far
    rooms_out,          \* local dict: room id -> Room
    n_attrs,            \* entries of room_attrs read so far
    last_attr,          \* the room_attrs entry read last
    map_out,            \* the MapData being assembled (local map_data)
    walls, no_go, no_mop, \* local lists
    n_regions,          \* entries of fb_regions read so far
    draw_calls,         \* calls of self._image_generator.draw_map
    empty_image_calls   \* calls of create_empty_map_image

inputVars == <<profile, payload, payload_paths>>
parserVars == <<robot_map, coord_transformer>>
tableVars == <<grid_to_room, room_to_grid, n_info>>
attrVars == <<n_attrs, last_attr>>
regionVars == <<walls, no_go, no_mop, n_regions>>
callVars == <<draw_calls, empty_image_calls>>

jsonVars == <<inputVars, jpc, jerror, parserVars, tableVars, rooms_out,
              attrVars, map_out, regionVars, callVars>>

(***************************************************************************)
(* XiaomiMapDataParser.parse called several times on one parser object.    *)
(***************************************************************************)
VARIABLES
    parse_raw,          \* raw, the argument of the parse call in progress
    history             \* the calls that have returned: argument and outcome

parseVars == <<parse_raw, history>>

(***************************************************************************)
(* Two _parse_json_payload calls running on one parser object in two       *)
(* threads; robot_map and coord_transformer above are the shared           *)
(* attributes, robot_map holding a reference into heap.                    *)
(***************************************************************************)
VARIABLES
    threads,            \* thread -> the locals of its call
    heap                \* the SimpleNamespace objects created at line 242

threadVars == <<threads, heap>>

(***************************************************************************)
(* aes_decryptor.decrypt.                                                  *)
(***************************************************************************)
VARIABLES
    encryptedMapContent, modelKey, did,  \* the arguments
    plaintext,          \* what the sender encrypted
    decryptKey,         \* local
    encryptedBytes,     \* local
    decrypted,          \* local decrypted_base64_bytes
    inflatedString,     \* local, the value returned
    xpc,                \* position in decrypt
    xerror              \* None, or the exception that left the call

decryptVars == <<encryptedMapContent, modelKey, did, plaintext, decryptKey,
                 encryptedBytes, decrypted, inflatedString, xpc, xerror>>

(***************************************************************************)
(* XiaomiMapDataParser._normalize_json_map_pixels.                         *)
(***************************************************************************)
VARIABLES
    raw_pixels,         \* the argument raw
    normalized,         \* out, the bytes returned
    npc                 \* "call", "done", "idle"

normVars == <<raw_pixels, normalized, npc>>

otherVars == <<parseVars, threadVars, decryptVars, normVars>>

vars == <<imgVars, yawVars, jsonVars, otherVars>>

(***************************************************************************)
(* XiaomiImageParser.parse, lines 78-86: the trimmed extents.              *)
(* int(p * n / 100) truncates; p and n are non-negative here.              *)
(***************************************************************************)
TrimPixels(percent, n) == (percent * n) \div 100

trim_left   == TrimPixels(trim.left, width)
trim_right  == TrimPixels(trim.right, width)
trim_top    == TrimPixels(trim.top, height)
trim_bottom == TrimPixels(trim.bottom, height)

trimmed_height == height - trim_top - trim_bottom
trimmed_width  == width - trim_left - trim_right

\* line 89
NoImage(tw, th) == tw = 0 \/ th = 0

(***************************************************************************)
(* The colours: a palette entry is modelled by its key.                    *)
(***************************************************************************)
Unwritten == <<"UNWRITTEN", 0>>

\* self.color_map, lines 47-53
ColorMapKeys == {MAP_OUTSIDE, MAP_WALL, MAP_SCAN, MAP_NEW_DISCOVERED_AREA, MAP_INSIDE}

color_map(p) ==
    CASE p = MAP_OUTSIDE -> <<"MAP_OUTSIDE", 0>>
      [] p = MAP_WALL -> <<"MAP_WALL_V2", 0>>
      [] p = MAP_SCAN -> <<"SCAN", 0>>
      [] p = MAP_NEW_DISCOVERED_AREA -> <<"NEW_DISCOVERED_AREA", 0>>
      [] p = MAP_INSIDE -> <<"MAP_INSIDE", 0>>

\* line 118
IsRoomPixel(p) == MAP_ROOM_MIN <= p /\ p <= MAP_SELECTED_ROOM_MAX

\* line 126
IsSelected(p) == p >= MAP_SELECTED_ROOM_MIN

FoldRoom_NoOffset(p) == p - MAP_SELECTED_ROOM_MIN

\* lines 127-128
FoldRoom(p) == p - MAP_SELECTED_ROOM_MIN + MAP_ROOM_MIN

\* lines 122-128: the effective room number of a room pixel
RoomNumber(p) == IF IsSelected(p) THEN FoldRoom(p) ELSE p

ExpandBox_MinOnly(box, x, y) ==
    <<Min(box[1], x), Min(box[2], y), Min(box[3], x), Max(box[4], y)>>

\* lines 137-142
ExpandBox(box, x, y) ==
    <<Min(box[1], x), Min(box[2], y), Max(box[3], x), Max(box[4], y)>>

\* lines 132-142
UpdateRooms(rs, n, x, y) ==
    IF n \notin DOMAIN rs
    THEN [k \in DOMAIN rs \cup {n} |-> IF k = n THEN <<x, y, x, y>> ELSE rs[k]]
    ELSE [rs EXCEPT ![n] = ExpandBox(rs[n], x, y)]

\* lines 114-150: the colour a pixel value gets
ColorOf(p) ==
    IF p \in ColorMapKeys THEN color_map(p)
    ELSE IF IsRoomPixel(p) THEN <<"ROOM", RoomNumber(p)>>
    ELSE <<"UNKNOWN", 0>>

ImageY_NoFlip(iy, th) == iy

\* line 105
ImageY(iy, th) == th - 1 - iy

\* line 111: index of the byte read for (img_x, img_y); + 1 for the 1-based sequence
SourceIndex(ix, iy, w, tl, tb) == (iy + tb) * w + ix + tl + 1

(***************************************************************************)
(* The body of the scan loop, lines 108-151, on a record of the locals.    *)
(***************************************************************************)
ScanPixel(st, data, w, tl, tb, th, ix, iy) ==
    LET p == data[SourceIndex(ix, iy, w, tl, tb)]
        y == ImageY(iy, th)
        isRoom == p \notin ColorMapKeys /\ IsRoomPixel(p)
        n == RoomNumber(p)
    IN [ rooms |-> IF isRoom THEN UpdateRooms(st.rooms, n, ix + tl, iy + tb)
                   ELSE st.rooms,
         order |-> IF isRoom /\ n \notin DOMAIN st.rooms
                   THEN Append(st.order, n) ELSE st.order,
         cleaned |-> IF isRoom /\ IsSelected(p) THEN st.cleaned \cup {n}
                     ELSE st.cleaned,
         unknown |-> IF p \notin ColorMapKeys /\ ~IsRoomPixel(p)
                     THEN st.unknown \cup {p} ELSE st.unknown,
         pixels |-> [st.pixels EXCEPT ![<<ix, y>>] = ColorOf(p)],
         writes |-> [st.writes EXCEPT ![<<ix, y>>] = @ + 1] ]

EmptyRooms == [k \in {} |-> <<0, 0, 0, 0>>]

ImageCoords(tw, th) == (0..(tw - 1)) \X (0..(th - 1))

(***************************************************************************)
(* Actions of XiaomiImageParser.parse.                                     *)
(***************************************************************************)
\* lines 72-100: locals, the trimmed extents, the early return, Image.new
ImgStart ==
    /\ ipc = "start"
    /\ IF NoImage(trimmed_width, trimmed_height)
       THEN /\ ipc' = "done"
            /\ image' = None
            /\ UNCHANGED <<pixels, writes>>
       ELSE /\ ipc' = "scan"
            /\ image' = <<trimmed_width, trimmed_height>>
            /\ pixels' = [c \in ImageCoords(trimmed_width, trimmed_height) |-> Unwritten]
            /\ writes' = [c \in ImageCoords(trimmed_width, trimmed_height) |-> 0]
    /\ rooms' = EmptyRooms
    /\ room_order' = <<>>
    /\ cleaned_areas' = {}
    /\ unknown_pixels' = {}
    /\ img_x' = 0
    /\ img_y' = 0
    /\ UNCHANGED <<map_data, width, height, trim>>
    /\ UNCHANGED <<yawVars, jsonVars, otherVars>>

\* lines 103-151: one iteration of the inner loop
ImgScan ==
    /\ ipc = "scan"
    /\ LET st == ScanPixel([rooms |-> rooms, order |-> room_order,
                            cleaned |-> cleaned_areas,
                            unknown |-> unknown_pixels, pixels |-> pixels,
                            writes |-> writes],
                           map_data, width, trim_left, trim_bottom,
                           trimmed_height, img_x, img_y)
       IN /\ rooms' = st.rooms
          /\ room_order' = st.order
          /\ cleaned_areas' = st.cleaned
          /\ unknown_pixels' = st.unknown
          /\ pixels' = st.pixels
          /\ writes' = st.writes
    /\ IF img_x + 1 < trimmed_width
       THEN /\ img_x' = img_x + 1
            /\ img_y' = img_y
            /\ ipc' = "scan"
       ELSE /\ img_x' = 0
            /\ img_y' = img_y + 1
            /\ ipc' = IF img_y + 1 < trimmed_height THEN "scan" ELSE "done"
    /\ UNCHANGED <<map_data, width, height, trim, image>>
    /\ UNCHANGED <<yawVars, jsonVars, otherVars>>

(***************************************************************************)
(* XiaomiMapDataParser._json_yaw_to_degrees.  A float is modelled in       *)
(* thousandths: yaw.v = 1570 is 1.57, the result 45000 is 45.0 degrees.    *)
(* pi is 355/113, which is exact to the thousandth of a degree here.       *)
(***************************************************************************)
\* line 136: 2 * math.pi + 0.001 = 6.28418..., in thousandths, rounded down
RadiansLimit == 6284
\* line 141: 180.0, in thousandths
DegreesLimit == 180000

Abs(v) == IF v < 0 THEN -v ELSE v

\* lines 130-133: float(yaw) succeeds
IsNumeric(y) == y.kind = "number"

\* line 137: value * 180.0 / math.pi
RadiansToDegrees(v) == (v * 180 * 113) \div 355

CentiDegrees_NoDivide(v) == v % DegreesLimit

\* line 142: (value / 100.0) % 180.0
CentiDegrees(v) == (v \div 100) % DegreesLimit

\* line 145: value % 180.0
PlainDegrees(v) == v % DegreesLimit

\* lines 130-145
json_yaw_to_degrees(y) ==
    IF ~IsNumeric(y) THEN 0
    ELSE IF Abs(y.v) <= RadiansLimit THEN RadiansToDegrees(y.v)
    ELSE IF Abs(y.v) > DegreesLimit THEN CentiDegrees(y.v)
    ELSE PlainDegrees(y.v)

Number(v) == [kind |-> "number", v |-> v]
NotANumber == [kind |-> "other", v |-> 0]

\* whole degrees and radians, the thresholds, centi-degrees, a non-number
YawInputs ==
    { Number(k * 1000) : k \in (-MaxYaw)..MaxYaw }
        \cup { Number(v) : v \in {1570, -1570, 3142, 6284, 6285, -6284, -6285,
                                  180001, -180001, 2470000, 9000000, -9000000,
                                  18000000, 35999000} }
        \cup { NotANumber }

YawCall ==
    /\ ypc = "call"
    /\ angle' = json_yaw_to_degrees(yaw)
    /\ ypc' = "done"
    /\ UNCHANGED <<yaw, imgVars, jsonVars, otherVars>>

(***************************************************************************)
(* XiaomiMapDataParser._parse_json_payload: values of the payload.         *)
(***************************************************************************)
Some(x) == <<x>>
Get(o) == o[1]

\* JSON scalars as json.loads delivers them
JInt(n) == [t |-> "int", v |-> n]
\* the string that spells the integer n
JStr(n) == [t |-> "str", v |-> n]
\* a non-empty string that spells no integer
BadStr == [t |-> "text", v |-> 0]
\* None, also what dict.get gives for a missing key
Null == [t |-> "null", v |-> 0]

\* Python truthiness, as used by "or" on line 335
Truthy(j) == (j.t = "int" /\ j.v # 0) \/ j.t = "str" \/ j.t = "text"
\* int(j) returns (it raises TypeError on None, ValueError on other text)
IntOk(j) == j.t \in {"int", "str"}
IntOf(j) == j.v

\* dict.get(k) and dict.get(k, d) on a dict held as a function
DictGet(f, k) == IF k \in DOMAIN f THEN Some(f[k]) ELSE None
DictGetOr(f, k, d) == IF k \in DOMAIN f THEN f[k] ELSE d
\* f[k] = v on a dict held as a function
Put(f, k, v) == [x \in DOMAIN f \cup {k} |-> IF x = k THEN v ELSE f[x]]
EmptyDict == [k \in {} |-> 0]

\* line 161
room_number_to_grid_id(room_number) == room_number - MAP_ROOM_MIN + 3

\* lines 182-198
NormalizeByte(v) ==
    IF v = 0 THEN 0
    ELSE IF v \in {1, 2} THEN 127
    ELSE IF 3 <= v /\ v <= 63 THEN MAP_ROOM_MIN + (v - 3)
    ELSE 128

\* lines 178-200
normalize_json_map_pixels(raw) == [i \in 1..Len(raw) |-> NormalizeByte(raw[i])]

\* lines 243-252: robot_map.mapHead
MapHead(p) ==
    [ mapHeadId |-> p.map_id,
      sizeX |-> Get(p.width),
      sizeY |-> Get(p.height),
      resolution |-> p.resolution,
      minX |-> p.origin_x,
      minY |-> p.origin_y,
      maxX |-> p.origin_x + Get(p.width) * p.resolution,
      maxY |-> p.origin_y + Get(p.height) * p.resolution ]

Transformer_StaleHeader(head) ==
    LET h == IF DOMAIN robot_map = {} THEN head ELSE robot_map.mapHead
    IN [ map_head |-> h,
         to_image_multiplier |->
             [ x |-> <<h.sizeX, h.maxX - h.minX>>,
               y |-> <<h.sizeY, h.maxY - h.minY>> ] ]

\* Transformer.__init__: each multiplier is kept as the fraction <<num, den>>
Transformer(head) ==
    [ map_head |-> head,
      to_image_multiplier |->
          [ x |-> <<head.sizeX, head.maxX - head.minX>>,
            y |-> <<head.sizeY, head.maxY - head.minY>> ] ]

\* Transformer.image_to_map_x: x / multiplier.x + minX
image_to_map_x(tr, x) ==
    (x * tr.to_image_multiplier.x[2]) \div tr.to_image_multiplier.x[1]
        + tr.map_head.minX

\* Transformer.image_to_map_y
image_to_map_y(tr, y) ==
    (y * tr.to_image_multiplier.y[2]) \div tr.to_image_multiplier.y[1]
        + tr.map_head.minY

NoTransformer == [map_head |-> None, to_image_multiplier |-> None]

\* MapData(0, 1): every field the parser assigns starts as None
EmptyMapData ==
    [ image |-> None, rooms |-> None, cleaned_rooms |-> None, charger |-> None,
      vacuum_position |-> None, path |-> None, mop_path |-> None,
      walls |-> None, no_go_areas |-> None, no_mopping_areas |-> None,
      zones |-> None ]

\* lines 269-278: ImageData(size, 0, 0, height, width, config, image, ...);
\* ImageData.is_empty is height == 0 or width == 0
ImageData(w, h, img) ==
    [ size |-> w * h, height |-> h, width |-> w, data |-> img,
      is_empty |-> (h = 0 \/ w = 0) ]

\* create_empty_map_image()
EmptyMapImage == <<"empty_map_image">>

\* Room(x0, y0, x1, y1, number); name, pos_x and pos_y start as None
Room(x0, y0, x1, y1, number) ==
    [ x0 |-> x0, y0 |-> y0, x1 |-> x1, y1 |-> y1, number |-> number,
      name |-> None, pos_x |-> None, pos_y |-> None ]

MissingMapData_OnlyData(p) == p.map_data.kind \in {"absent", "empty"}

\* line 226
MissingMapData(p) ==
    \/ p.map_data.kind \in {"absent", "empty"}
    \/ p.width = None
    \/ p.height = None

(***************************************************************************)
(* The payloads explored.                                                  *)
(***************************************************************************)
\* bytes of the decoded map_data: floor, two rooms, and a room byte above 52
JsonBytes == {1, 3, 4, 53}

JsonShapes == {<<1, 1>>, <<2, 1>>, <<1, 2>>}

JsonTrims ==
    { [left |-> 0,  right |-> 0,  top |-> 0, bottom |-> 0],
      [left |-> 50, right |-> 50, top |-> 0, bottom |-> 0] }

MapBytes(kind, bytes) == [kind |-> kind, bytes |-> bytes]

Header(w, h, ox, oy, data) ==
    [ map_id |-> 1, width |-> w, height |-> h, resolution |-> 50,
      origin_x |-> ox, origin_y |-> oy, map_data |-> data ]

\* payloads with a decodable map of every shape and content
WellFormedHeaders ==
    UNION { { Header(Some(s[1]), Some(s[2]), -100, 200, MapBytes("ok", b)) :
                b \in [1..(s[1] * s[2]) -> JsonBytes] } : s \in JsonShapes }

\* payloads with width, height or map_data absent, or map_data undecodable
DegenerateHeaders ==
    { Header(w, h, 0, 0, d) :
        w \in {None, Some(2)}, h \in {None, Some(1)},
        d \in { MapBytes("absent", <<>>), MapBytes("empty", <<>>),
                MapBytes("corrupt", <<>>), MapBytes("ok", <<3, 4>>) } }

\* map_room_info entries
Info(g, r) == [dict |-> TRUE, grid_id |-> g, room_id |-> r]
NotADict == [dict |-> FALSE]

InfoEntries ==
    { Info(JInt(3), JInt(100)), Info(JInt(3), JInt(3)), Info(JInt(100), JInt(4)),
      Info(JInt(3), JInt(4)),
      Info(Null, JInt(4)), Info(JInt(4), BadStr), NotADict }

\* room_attrs entries: the three identifier keys, the two name keys and the
\* label position (text_x/text_y, else name_pos_x/name_pos_y)
Attr(room_id, grid_id, id, name, room_name, x, y) ==
    [ dict |-> TRUE, room_id |-> room_id, grid_id |-> grid_id, id |-> id,
      name |-> name, room_name |-> room_name, text_x |-> x, text_y |-> y,
      name_pos_x |-> None, name_pos_y |-> None ]

AttrEntries ==
    { Attr(JInt(100), Null, Null, Some("a"), None, Some(1), Some(2)),
      Attr(JInt(4), Null, Null, Some("b"), None, None, None),
      Attr(Null, Null, JInt(3), None, Some("c"), Some(3), Some(4)),
      Attr(JInt(0), JStr(4), Null, Some("d"), None, Some(5), Some(6)),
      Attr(Null, Null, Null, Some("e"), None, None, None),
      Attr(Null, BadStr, Null, Some("f"), None, None, None),
      NotADict }

\* lines 217-262: header, early return, decode, transformer, classifier call
JsonHeader ==
    /\ jpc = "start"
    /\ IF MissingMapData(payload)
       THEN /\ jpc' = "done"
            /\ map_out' = EmptyMapData
            /\ UNCHANGED <<jerror, parserVars, imgVars>>
       ELSE IF payload.map_data.kind # "ok"
       THEN \* line 234: RuntimeError
            /\ jpc' = "error"
            /\ jerror' = Some("RuntimeError")
            /\ UNCHANGED <<map_out, parserVars, imgVars>>
       ELSE IF payload.width = None \/ payload.height = None
       THEN \* line 245: int(None)
            /\ jpc' = "error"
            /\ jerror' = Some("TypeError")
            /\ UNCHANGED <<map_out, parserVars, imgVars>>
       ELSE /\ jpc' = "classify"
            /\ map_out' = EmptyMapData
            /\ robot_map' = [mapHead |-> MapHead(payload)]
            /\ coord_transformer' = Transformer(MapHead(payload))
            /\ map_data' = normalize_json_map_pixels(payload.map_data.bytes)
            /\ width' = Get(payload.width)
            /\ height' = Get(payload.height)
            /\ ipc' = "start"
            /\ UNCHANGED <<jerror, trim, img_x, img_y, rooms, room_order,
                           cleaned_areas, unknown_pixels, pixels, writes, image>>
    /\ UNCHANGED <<inputVars, tableVars, rooms_out, attrVars, regionVars,
                   callVars, yawVars, otherVars>>

\* lines 262-289: the classifier has returned; ImageData; the empty tables
JsonImage ==
    /\ jpc = "classify"
    /\ ipc = "done"
    /\ jpc' = "room_info"
    /\ empty_image_calls' = IF image = None THEN empty_image_calls + 1
                            ELSE empty_image_calls
    /\ map_out' = [map_out EXCEPT !.image =
                      Some(ImageData(Get(payload.width), Get(payload.height),
                                     IF image = None THEN EmptyMapImage ELSE image))]
    /\ rooms_out' = EmptyDict
    /\ grid_to_room' = EmptyDict
    /\ room_to_grid' = EmptyDict
    /\ UNCHANGED <<inputVars, jerror, parserVars, n_info, attrVars, regionVars,
                   draw_calls, imgVars, yawVars, otherVars>>

\* lines 294-304: the entry is read as a pair of integers
InfoUsable(entry) ==
    /\ entry.dict
    /\ entry.grid_id # Null /\ entry.room_id # Null
    /\ IntOk(entry.grid_id) /\ IntOk(entry.room_id)

\* lines 293-308: one iteration over map_room_info
JsonRoomInfoEntry ==
    /\ jpc = "room_info"
    /\ profile = "rooms"
    /\ n_info < MaxInfo
    /\ \E entry \in InfoEntries :
          IF InfoUsable(entry)
          THEN /\ grid_to_room' = Put(grid_to_room, IntOf(entry.grid_id),
                                      IntOf(entry.room_id))
               /\ room_to_grid' = Put(room_to_grid, IntOf(entry.room_id),
                                      IntOf(entry.grid_id))
          ELSE UNCHANGED <<grid_to_room, room_to_grid>>
    /\ n_info' = n_info + 1
    /\ UNCHANGED <<inputVars, jpc, jerror, parserVars, rooms_out, attrVars,
                   map_out, regionVars, callVars, imgVars, yawVars, otherVars>>

\* lines 313-324: the Room built for one classifier box
RoomOf(tr, box, room_id) ==
    Room(image_to_map_x(tr, box[1]), image_to_map_y(tr, box[2]),
         image_to_map_x(tr, box[3]), image_to_map_y(tr, box[4]), room_id)

\* lines 311-324: the loop over rooms_raw.items(), in the dict's order
RECURSIVE BuildRooms(_, _, _, _, _)
BuildRooms(order, raw, g2r, tr, acc) ==
    IF order = <<>> THEN acc
    ELSE LET room_number == Head(order)
             grid_id == room_number_to_grid_id(room_number)
             room_id == DictGetOr(g2r, grid_id, grid_id)
         IN BuildRooms(Tail(order), raw, g2r, tr,
                       Put(acc, room_id, RoomOf(tr, raw[room_number], room_id)))

\* lines 310-328: map_room_info is exhausted; the rooms are built
JsonRooms ==
    /\ jpc = "room_info"
    /\ jpc' = "room_attrs"
    /\ rooms_out' = BuildRooms(room_order, rooms, grid_to_room,
                               coord_transformer, rooms_out)
    /\ UNCHANGED <<inputVars, jerror, parserVars, tableVars, attrVars, map_out,
                   regionVars, callVars, imgVars, yawVars, otherVars>>

\* line 335: r.get("room_id") or r.get("grid_id") or r.get("id")
RidOf(r) ==
    IF Truthy(r.room_id) THEN r.room_id
    ELSE IF Truthy(r.grid_id) THEN r.grid_id
    ELSE r.id

\* lines 331-341: the entry yields an integer identifier
AttrUsable(r) == r.dict /\ RidOf(r) # Null /\ IntOk(RidOf(r))

ResolveTarget_GridFirst(rid_int, out, g2r, r2g) ==
    IF rid_int \in DOMAIN out THEN Some(rid_int)
    ELSE IF DictGet(r2g, rid_int) # None /\ Get(DictGet(r2g, rid_int)) \in DOMAIN out
    THEN DictGet(r2g, rid_int)
    ELSE IF DictGet(g2r, rid_int) # None /\ Get(DictGet(g2r, rid_int)) \in DOMAIN out
    THEN DictGet(g2r, rid_int)
    ELSE None

\* lines 348-362: target_id
ResolveTarget(rid_int, out, g2r, r2g) ==
    IF rid_int \in DOMAIN out THEN Some(rid_int)
    ELSE IF DictGet(g2r, rid_int) # None /\ Get(DictGet(g2r, rid_int)) \in DOMAIN out
    THEN DictGet(g2r, rid_int)
    ELSE IF DictGet(r2g, rid_int) # None /\ Get(DictGet(r2g, rid_int)) \in DOMAIN out
    THEN DictGet(r2g, rid_int)
    ELSE None

\* line 366: r.get("name") or r.get("room_name")
NameOf(r) == IF r.name # None THEN r.name ELSE r.room_name
\* line 368: r.get("text_x", r.get("name_pos_x"))
PosXOf(r) == IF r.text_x # None THEN r.text_x ELSE r.name_pos_x
\* line 369
PosYOf(r) == IF r.text_y # None THEN r.text_y ELSE r.name_pos_y

\* lines 365-369
AttachName(out, target, r) ==
    [out EXCEPT ![target] = [@ EXCEPT !.name = NameOf(r),
                                      !.pos_x = PosXOf(r),
                                      !.pos_y = PosYOf(r)]]

\* lines 330-369: one iteration over room_attrs
JsonRoomAttr ==
    /\ jpc = "room_attrs"
    /\ profile = "rooms"
    /\ n_attrs < MaxAttrs
    /\ \E r \in AttrEntries :
          /\ last_attr' = r
          /\ IF AttrUsable(r)
             THEN LET target == ResolveTarget(IntOf(RidOf(r)), rooms_out,
                                              grid_to_room, room_to_grid)
                  IN IF target # None
                     THEN rooms_out' = AttachName(rooms_out, Get(target), r)
                     ELSE UNCHANGED rooms_out
             ELSE UNCHANGED rooms_out
    /\ n_attrs' = n_attrs + 1
    /\ UNCHANGED <<inputVars, jpc, jerror, parserVars, tableVars, map_out,
                   regionVars, callVars, imgVars, yawVars, otherVars>>

\* Point(x, y, a); a is None unless given
Point(x, y, a) == [x |-> x, y |-> y, a |-> a]

CleanedRoomsOut_GridIds(cleaned, g2r) ==
    { room_number_to_grid_id(n) : n \in cleaned }

\* lines 375-383
CleanedRoomsOut(cleaned, g2r) ==
    { DictGetOr(g2r, room_number_to_grid_id(n), room_number_to_grid_id(n)) :
        n \in cleaned }

\* have_pile/pile_x/pile_y/pile_yaw of the payload
Pile(have, yaw_value) == [have_pile |-> have, pile_x |-> 10, pile_y |-> 20,
                          pile_yaw |-> yaw_value]
\* "position" of the payload
Position(is_dict, yaw_value) == [dict |-> is_dict, x |-> 30, y |-> 40,
                                 yaw |-> yaw_value]

PileInputs(prof) ==
    IF prof # "overlays" THEN { Pile(FALSE, NotANumber) }
    ELSE { Pile(FALSE, NotANumber), Pile(TRUE, Number(1570)),
           Pile(TRUE, Number(-1000)) }

PositionInputs(prof) ==
    IF prof # "overlays" THEN { Position(FALSE, NotANumber) }
    ELSE { Position(FALSE, NotANumber), Position(TRUE, Number(9000000)),
           Position(TRUE, NotANumber) }

\* lines 371-402: rooms, cleaned rooms, charger and vacuum position
JsonPoses ==
    /\ jpc = "room_attrs"
    /\ jpc' = "paths"
    /\ \E pile \in PileInputs(profile), position \in PositionInputs(profile) :
          map_out' =
              [map_out EXCEPT
                  !.rooms = Some(rooms_out),
                  !.cleaned_rooms = Some(CleanedRoomsOut(cleaned_areas, grid_to_room)),
                  !.charger =
                      IF pile.have_pile
                      THEN Some(Point(pile.pile_x, pile.pile_y,
                                      Some(json_yaw_to_degrees(pile.pile_yaw))))
                      ELSE @,
                  !.vacuum_position =
                      IF position.dict
                      THEN Some(Point(position.x, position.y,
                                      Some(json_yaw_to_degrees(position.yaw))))
                      ELSE @]
    /\ UNCHANGED <<inputVars, jerror, parserVars, tableVars, rooms_out,
                   attrVars, regionVars, callVars, imgVars, yawVars, otherVars>>

\* an entry of the points list: "yaw" and "sweep_mop_mode" may be missing
PathPoint(x, y, yaw_value, mop) ==
    [dict |-> TRUE, x |-> x, y |-> y, yaw |-> yaw_value, sweep_mop_mode |-> mop]

\* lines 423-430
PointOfPath(p) ==
    Point(p.x, p.y, IF p.yaw # None THEN Some(json_yaw_to_degrees(Get(p.yaw)))
                    ELSE None)

\* lines 419-436: points
RECURSIVE PathPoints(_)
PathPoints(src) ==
    IF src = <<>> THEN <<>>
    ELSE IF ~Head(src).dict THEN PathPoints(Tail(src))
    ELSE <<PointOfPath(Head(src))>> \o PathPoints(Tail(src))

MopPoints_EveryPoint(src) == PathPoints(src)

\* lines 419-436: points_mop
RECURSIVE MopPoints(_)
MopPoints(src) ==
    IF src = <<>> THEN <<>>
    ELSE IF ~Head(src).dict THEN MopPoints(Tail(src))
    ELSE IF Head(src).sweep_mop_mode
    THEN <<PointOfPath(Head(src))>> \o MopPoints(Tail(src))
    ELSE MopPoints(Tail(src))

\* Path(len(points), 1, 0, [points])
Path(points) == [size |-> Len(points), path |-> <<points>>]

\* lines 406-413: points_src; None when "paths" is neither a dict nor a list
PointsSrc(paths) ==
    IF paths.kind = "dict" THEN paths.points
    ELSE IF paths.kind = "list" THEN paths.points
    ELSE None

Paths(kind, points) == [kind |-> kind, points |-> points]

PathInputs(prof) ==
    IF prof # "overlays" THEN { Paths("absent", None) }
    ELSE { Paths("absent", None),
           Paths("dict", None),
           Paths("list", Some(<<>>)),
           Paths("list", Some(<<PathPoint(1, 2, None, FALSE)>>)),
           Paths("dict", Some(<<PathPoint(1, 2, Some(Number(45000)), TRUE),
                                NotADict,
                                PathPoint(3, 4, None, FALSE)>>)),
           Paths("list", Some(<<PathPoint(1, 2, None, TRUE),
                                PathPoint(3, 4, None, FALSE),
                                PathPoint(5, 6, None, TRUE)>>)) }

\* lines 406-442
JsonPaths ==
    /\ jpc = "paths"
    /\ jpc' = "fb_regions"
    /\ \E paths \in PathInputs(profile) :
          /\ payload_paths' = paths
          /\ LET points_src == PointsSrc(paths)
             IN IF points_src = None
                THEN UNCHANGED map_out
                ELSE LET points == PathPoints(Get(points_src))
                         points_mop == MopPoints(Get(points_src))
                     IN map_out' =
                           [map_out EXCEPT
                               !.path = IF points # <<>> THEN Some(Path(points))
                                        ELSE @,
                               !.mop_path = IF points_mop # <<>>
                                            THEN Some(Path(points_mop)) ELSE @]
    /\ walls' = <<>>
    /\ no_go' = <<>>
    /\ no_mop' = <<>>
    /\ UNCHANGED <<profile, payload, jerror, parserVars, tableVars, rooms_out,
                   attrVars, n_regions, callVars, imgVars, yawVars, otherVars>>

\* an fb_regions entry; a point is a dict whose "x" or "y" may be missing
Pt(x, y) == [x |-> x, y |-> y]
Region4(type, pts) == [dict |-> TRUE, type |-> type, points |-> pts]

GoodPts == <<Pt(Some(0), Some(0)), Pt(Some(1), Some(0)),
             Pt(Some(1), Some(1)), Pt(Some(0), Some(1))>>

RegionEntries ==
    { NotADict,
      Region4("wall", None),
      Region4("no_go", Some(SubSeq(GoodPts, 1, 3))),
      Region4("wall", Some(GoodPts)),
      Region4("no_go", Some(GoodPts)),
      Region4("no_mop", Some(GoodPts)),
      Region4("other", Some(GoodPts)),
      Region4("wall", Some([GoodPts EXCEPT ![2] = Pt(Some(1), None)])) }

\* lines 452-457: the entry reaches line 460
RegionUsable(area) ==
    /\ area.dict
    /\ area.points # None /\ Get(area.points) # <<>>
    /\ Len(Get(area.points)) = 4

\* line 460: pt["x"] and pt["y"] exist for every point (else KeyError)
PointsComplete(pts) == \A i \in 1..Len(pts) : pts[i].x # None /\ pts[i].y # None

\* Wall(x0, y0, x1, y1), line 466
Wall(p) == <<Get(p[1].x), Get(p[1].y), Get(p[3].x), Get(p[3].y)>>
\* Area(x0, y0, ..., x3, y3), lines 469 and 472
Area(p) == <<Get(p[1].x), Get(p[1].y), Get(p[2].x), Get(p[2].y),
             Get(p[3].x), Get(p[3].y), Get(p[4].x), Get(p[4].y)>>

\* lines 451-472: one iteration over fb_regions
JsonRegion ==
    /\ jpc = "fb_regions"
    /\ profile = "overlays"
    /\ n_regions < MaxRegions
    /\ n_regions' = n_regions + 1
    /\ \E area \in RegionEntries :
          IF ~RegionUsable(area)
          THEN UNCHANGED <<jpc, jerror, walls, no_go, no_mop>>
          ELSE IF ~PointsComplete(Get(area.points))
          THEN /\ jpc' = "error"
               /\ jerror' = Some("KeyError")
               /\ UNCHANGED <<walls, no_go, no_mop>>
          ELSE /\ walls' = IF area.type = "wall"
                           THEN Append(walls, Wall(Get(area.points))) ELSE walls
               /\ no_go' = IF area.type = "no_go"
                           THEN Append(no_go, Area(Get(area.points))) ELSE no_go
               /\ no_mop' = IF area.type = "no_mop"
                            THEN Append(no_mop, Area(Get(area.points))) ELSE no_mop
               /\ UNCHANGED <<jpc, jerror>>
    /\ UNCHANGED <<inputVars, parserVars, tableVars, rooms_out, attrVars,
                   map_out, callVars, imgVars, yawVars, otherVars>>

\* a zones entry: a dict with x1, y1, x2, y2 (any may be missing), or no dict
ZoneEntry(x1, y1, x2, y2) == [dict |-> TRUE, x1 |-> x1, y1 |-> y1, x2 |-> x2, y2 |-> y2]

\* lines 486-491: z["x1"], z["y1"], z["x2"], z["y2"] exist (else KeyError)
ZoneComplete(z) == z.x1 # None /\ z.y1 # None /\ z.x2 # None /\ z.y2 # None

\* Zone(x1, y1, x2, y2)
Zone(z) == <<Get(z.x1), Get(z.y1), Get(z.x2), Get(z.y2)>>

\* lines 481-492: the zones read before the first entry that raises, if any
RECURSIVE Zones(_)
Zones(src) ==
    IF src = <<>> THEN <<>>
    ELSE IF ~Head(src).dict THEN Zones(Tail(src))
    ELSE <<Zone(Head(src))>> \o Zones(Tail(src))

ZonesRaise(src) == \E i \in 1..Len(src) : src[i].dict /\ ~ZoneComplete(src[i])

ZoneInputs(prof) ==
    IF prof # "overlays" THEN { <<>> }
    ELSE { <<>>,
           <<ZoneEntry(Some(0), Some(0), Some(5), Some(5))>>,
           <<NotADict, ZoneEntry(Some(1), Some(1), Some(2), Some(2))>> }

\* lines 474-493: walls and areas are stored, the zones are read
JsonZones ==
    /\ jpc = "fb_regions"
    /\ \E zs \in ZoneInputs(profile) :
          IF ZonesRaise(zs)
          THEN /\ jpc' = "error"
               /\ jerror' = Some("KeyError")
               /\ map_out' = [map_out EXCEPT !.walls = Some(walls),
                                             !.no_go_areas = Some(no_go),
                                             !.no_mopping_areas = Some(no_mop)]
          ELSE /\ jpc' = "draw"
               /\ map_out' = [map_out EXCEPT !.walls = Some(walls),
                                             !.no_go_areas = Some(no_go),
                                             !.no_mopping_areas = Some(no_mop),
                                             !.zones = Some(Zones(zs))]
               /\ UNCHANGED jerror
    /\ UNCHANGED <<inputVars, parserVars, tableVars, rooms_out, attrVars,
                   regionVars, callVars, imgVars, yawVars, otherVars>>

\* lines 497-500: draw_map unless the image is missing or empty; return
JsonDraw ==
    /\ jpc = "draw"
    /\ jpc' = "done"
    /\ draw_calls' = IF map_out.image # None /\ ~Get(map_out.image).is_empty
                     THEN draw_calls + 1 ELSE draw_calls
    /\ UNCHANGED <<inputVars, jerror, parserVars, tableVars, rooms_out,
                   attrVars, map_out, regionVars, empty_image_calls,
                   imgVars, yawVars, otherVars>>

(***************************************************************************)
(* Initial states and specifications.                                      *)
(***************************************************************************)
\* no parse call has been made
ParseIdle ==
    /\ parse_raw = None
    /\ history = <<>>

\* no thread runs
ThreadsIdle ==
    /\ threads = <<>>
    /\ heap = <<>>

\* decrypt is not called
DecryptIdle ==
    /\ encryptedMapContent = None
    /\ modelKey = None
    /\ did = None
    /\ plaintext = None
    /\ decryptKey = None
    /\ encryptedBytes = None
    /\ decrypted = None
    /\ inflatedString = None
    /\ xpc = "idle"
    /\ xerror = None

\* _normalize_json_map_pixels is not called
NormIdle ==
    /\ raw_pixels = <<>>
    /\ normalized = <<>>
    /\ npc = "idle"

ImgIdle ==
    /\ map_data = <<>>
    /\ width = 0
    /\ height = 0
    /\ trim = [left |-> 0, right |-> 0, top |-> 0, bottom |-> 0]
    /\ ipc = "idle"
    /\ img_x = 0
    /\ img_y = 0
    /\ rooms = EmptyRooms
    /\ room_order = <<>>
    /\ cleaned_areas = {}
    /\ unknown_pixels = {}
    /\ pixels = <<>>
    /\ writes = <<>>
    /\ image = None

YawIdle ==
    /\ yaw = NotANumber
    /\ angle = 0
    /\ ypc = "idle"

\* the payload of the runs that vary the overlays: a 2 x 1 map of two rooms
OverlayHeader == Header(Some(2), Some(1), -100, 200, MapBytes("ok", <<3, 4>>))

JsonLocals ==
    /\ payload_paths = Paths("unread", None)
    /\ jerror = None
    /\ robot_map = None
    /\ coord_transformer = NoTransformer
    /\ grid_to_room = EmptyDict
    /\ room_to_grid = EmptyDict
    /\ n_info = 0
    /\ rooms_out = EmptyDict
    /\ n_attrs = 0
    /\ last_attr = NotADict
    /\ map_out = EmptyMapData
    /\ walls = <<>>
    /\ no_go = <<>>
    /\ no_mop = <<>>
    /\ n_regions = 0
    /\ draw_calls = 0
    /\ empty_image_calls = 0

JsonIdle ==
    /\ profile = "none"
    /\ payload = OverlayHeader
    /\ jpc = "idle"
    /\ JsonLocals

\* a parser object with its image configuration, and a payload handed to
\* _parse_json_payload: either the map, the room table and the room names
\* vary, or the poses, paths, regions and zones do
InitJson ==
    /\ \/ /\ profile = "rooms"
          /\ payload \in WellFormedHeaders \cup DegenerateHeaders
          /\ trim \in JsonTrims
       \/ /\ profile = "overlays"
          /\ payload = OverlayHeader
          /\ trim = [left |-> 0, right |-> 0, top |-> 0, bottom |-> 0]
    /\ jpc = "start"
    /\ JsonLocals
    /\ map_data = <<>>
    /\ width = 0
    /\ height = 0
    /\ ipc = "idle"
    /\ img_x = 0
    /\ img_y = 0
    /\ rooms = EmptyRooms
    /\ room_order = <<>>
    /\ cleaned_areas = {}
    /\ unknown_pixels = {}
    /\ pixels = <<>>
    /\ writes = <<>>
    /\ image = None
    /\ YawIdle
    /\ ParseIdle /\ ThreadsIdle /\ DecryptIdle /\ NormIdle

NextJson ==
    \/ JsonHeader
    \/ ImgStart
    \/ ImgScan
    \/ JsonImage
    \/ JsonRoomInfoEntry
    \/ JsonRooms
    \/ JsonRoomAttr
    \/ JsonPoses
    \/ JsonPaths
    \/ JsonRegion
    \/ JsonZones
    \/ JsonDraw

SpecJson == InitJson /\ [][NextJson]_vars

InitYaw ==
    /\ yaw \in YawInputs
    /\ angle = 0
    /\ ypc = "call"
    /\ ImgIdle
    /\ JsonIdle
    /\ ParseIdle /\ ThreadsIdle /\ DecryptIdle /\ NormIdle

NextYaw == YawCall

SpecYaw == InitYaw /\ [][NextYaw]_vars

InitImage ==
    /\ \E s \in Shapes :
          /\ width = s[1]
          /\ height = s[2]
          /\ map_data \in [1..(s[1] * s[2]) -> PixelBytes]
    /\ trim \in TrimConfigs
    /\ YawIdle
    /\ JsonIdle
    /\ ipc = "start"
    /\ img_x = 0
    /\ img_y = 0
    /\ rooms = EmptyRooms
    /\ room_order = <<>>
    /\ cleaned_areas = {}
    /\ unknown_pixels = {}
    /\ pixels = <<>>
    /\ writes = <<>>
    /\ image = None
    /\ ParseIdle /\ ThreadsIdle /\ DecryptIdle /\ NormIdle

NextImage == ImgStart \/ ImgScan

SpecImage == InitImage /\ [][NextImage]_vars

(***************************************************************************)
(* XiaomiImageParser.parse as a function of its arguments: the scan loop   *)
(* run to its end.                                                         *)
(***************************************************************************)
\* lines 103-151: the iterations from the k-th on, img_y outer, img_x inner
RECURSIVE ScanFrom(_, _, _, _, _, _, _, _)
ScanFrom(st, data, w, tl, tb, tw, th, k) ==
    IF k = tw * th THEN st
    ELSE ScanFrom(ScanPixel(st, data, w, tl, tb, th, k % tw, k \div tw),
                  data, w, tl, tb, tw, th, k + 1)

\* lines 72-163: image, rooms and cleaned_areas as returned
Classifier(data, w, h, tr) ==
    LET tl == TrimPixels(tr.left, w)
        tb == TrimPixels(tr.bottom, h)
        tw == w - tl - TrimPixels(tr.right, w)
        th == h - TrimPixels(tr.top, h) - tb
    IN IF NoImage(tw, th)
       THEN [image |-> None, rooms |-> EmptyRooms, order |-> <<>>, cleaned |-> {}]
       ELSE LET st == ScanFrom([rooms |-> EmptyRooms, order |-> <<>>,
                                cleaned |-> {}, unknown |-> {},
                                pixels |-> [c \in ImageCoords(tw, th) |-> Unwritten],
                                writes |-> [c \in ImageCoords(tw, th) |-> 0]],
                               data, w, tl, tb, tw, th, 0)
            IN [image |-> <<tw, th>>, rooms |-> st.rooms, order |-> st.order,
                cleaned |-> st.cleaned]

(***************************************************************************)
(* _parse_json_payload run by two threads on one parser object.  A step    *)
(* is a stretch of one thread's code that reads or writes self.robot_map   *)
(* or self.coord_transformer at most at one place; the interpreter may     *)
(* switch threads between any two steps.  The payloads carry the header    *)
(* and the map only, so lines 291-308 and 326-493 touch locals alone.      *)
(***************************************************************************)
Threads == {1, 2}

ThreadPayloads ==
    { Header(Some(2), Some(1), -100, 200, MapBytes("ok", <<3, 4>>)),
      Header(Some(1), Some(2), 0, 0, MapBytes("ok", <<3, 4>>)),
      Header(Some(1), Some(1), 500, 500, MapBytes("ok", <<5>>)) }

\* the locals of a call that has not started
ThreadLocals(p) ==
    [ pc |-> "start", payload |-> p, rooms_raw |-> EmptyRooms, todo |-> <<>>,
      rooms_out |-> EmptyDict, img_transformation |-> NoTransformer,
      error |-> None ]

\* line 242: self.robot_map = SimpleNamespace()
ThreadNamespace(t) ==
    /\ threads[t].pc = "start"
    /\ heap' = Put(heap, t, [mapHead |-> None])
    /\ robot_map' = Some(t)
    /\ threads' = [threads EXCEPT ![t].pc = "map_head"]
    /\ UNCHANGED coord_transformer

\* lines 243-252: self.robot_map.mapHead = SimpleNamespace(...)
ThreadMapHead(t) ==
    /\ threads[t].pc = "map_head"
    /\ heap' = [heap EXCEPT ![Get(robot_map)].mapHead =
                   Some(MapHead(threads[t].payload))]
    /\ threads' = [threads EXCEPT ![t].pc = "transformer"]
    /\ UNCHANGED <<robot_map, coord_transformer>>

\* line 255: self.coord_transformer = Transformer(self.robot_map);
\* Transformer.__init__ line 12 raises AttributeError without mapHead
ThreadTransformer(t) ==
    /\ threads[t].pc = "transformer"
    /\ IF heap[Get(robot_map)].mapHead = None
       THEN /\ threads' = [threads EXCEPT ![t].pc = "error",
                                          ![t].error = Some("AttributeError")]
            /\ UNCHANGED coord_transformer
       ELSE /\ coord_transformer' = Transformer(Get(heap[Get(robot_map)].mapHead))
            /\ threads' = [threads EXCEPT ![t].pc = "classify"]
    /\ UNCHANGED <<robot_map, heap>>

\* lines 258-289: the classifier runs on locals; ImageData is given
\* self.coord_transformer.map_to_image
ThreadClassify(t) ==
    /\ threads[t].pc = "classify"
    /\ LET p == threads[t].payload
           c == Classifier(normalize_json_map_pixels(p.map_data.bytes),
                           Get(p.width), Get(p.height), trim)
       IN threads' = [threads EXCEPT ![t].pc = "rooms",
                                     ![t].rooms_raw = c.rooms,
                                     ![t].todo = c.order,
                                     ![t].img_transformation = coord_transformer]
    /\ UNCHANGED <<robot_map, coord_transformer, heap>>

\* lines 311-324: one iteration over rooms_raw.items()
ThreadRoom(t) ==
    /\ threads[t].pc = "rooms"
    /\ threads[t].todo # <<>>
    /\ LET room_number == Head(threads[t].todo)
           grid_id == room_number_to_grid_id(room_number)
       IN threads' = [threads EXCEPT
              ![t].todo = Tail(@),
              ![t].rooms_out = Put(@, grid_id,
                  RoomOf(coord_transformer, threads[t].rooms_raw[room_number],
                         grid_id))]
    /\ UNCHANGED <<robot_map, coord_transformer, heap>>

\* lines 326-500: the rest of the call, on locals; return map_data
ThreadReturn(t) ==
    /\ threads[t].pc = "rooms"
    /\ threads[t].todo = <<>>
    /\ threads' = [threads EXCEPT ![t].pc = "done"]
    /\ UNCHANGED <<robot_map, coord_transformer, heap>>

ThreadStep(t) ==
    \/ ThreadNamespace(t)
    \/ ThreadMapHead(t)
    \/ ThreadTransformer(t)
    \/ ThreadClassify(t)
    \/ ThreadRoom(t)
    \/ ThreadReturn(t)

\* the json variables other than the two shared attributes
JsonLocalsIdle ==
    /\ profile = "none"
    /\ payload = OverlayHeader
    /\ payload_paths = Paths("unread", None)
    /\ jpc = "idle"
    /\ jerror = None
    /\ grid_to_room = EmptyDict
    /\ room_to_grid = EmptyDict
    /\ n_info = 0
    /\ rooms_out = EmptyDict
    /\ n_attrs = 0
    /\ last_attr = NotADict
    /\ map_out = EmptyMapData
    /\ walls = <<>>
    /\ no_go = <<>>
    /\ no_mop = <<>>
    /\ n_regions = 0
    /\ draw_calls = 0
    /\ empty_image_calls = 0

\* a fresh parser (lines 63-64) and two calls for two different maps
InitThreads ==
    /\ threads \in [Threads -> {ThreadLocals(p) : p \in ThreadPayloads}]
    /\ threads[1].payload # threads[2].payload
    /\ heap = EmptyDict
    /\ robot_map = None
    /\ coord_transformer = NoTransformer
    /\ JsonLocalsIdle
    /\ ImgIdle /\ YawIdle /\ ParseIdle /\ DecryptIdle /\ NormIdle

NextThreads ==
    /\ \E t \in Threads : ThreadStep(t)
    /\ UNCHANGED <<imgVars, yawVars, parseVars, decryptVars, normVars>>
    /\ UNCHANGED <<inputVars, jpc, jerror, tableVars, rooms_out, attrVars,
                   map_out, regionVars, callVars>>

SpecThreads == InitThreads /\ [][NextThreads]_vars

(***************************************************************************)
(* XiaomiMapDataParser.parse, lines 98-113, called repeatedly on one       *)
(* parser object.  A JSON text is held as the value it spells.             *)
(***************************************************************************)
\* json.dumps(v): the text that spells v
Dumps(v) == [valid |-> TRUE, value |-> v]
\* a text that is no JSON document
InvalidJson == [valid |-> FALSE, value |-> None]
\* json.loads(text) returns (it raises JSONDecodeError otherwise)
LoadsOk(text) == text.valid
Loads(text) == text.value

\* JSON values: an object with the header fields of a payload, and a list
JDict(p) == [t |-> "dict", v |-> p]
JList == [t |-> "list", v |-> None]

\* arguments of parse: None, a str, a dict, and a value of another type
RawNone == [t |-> "None", v |-> None]
RawStr(text) == [t |-> "str", v |-> text]
RawBytes == [t |-> "bytes", v |-> None]

ParsePayloads ==
    { Header(Some(2), Some(1), -100, 200, MapBytes("ok", <<3, 4>>)),
      Header(Some(2), Some(1), 0, 0, MapBytes("ok", <<3, 4>>)),
      Header(None, Some(1), 0, 0, MapBytes("ok", <<3, 4>>)),
      Header(Some(2), Some(1), 0, 0, MapBytes("corrupt", <<>>)) }

RawInputs ==
    {RawNone, RawBytes, JList, RawStr(InvalidJson), RawStr(Dumps(JList))}
        \cup {JDict(p) : p \in ParsePayloads}
        \cup {RawStr(Dumps(JDict(p))) : p \in ParsePayloads}

DispatchError_NoneCheckMissing(r) ==
    IF r.t = "str"
    THEN IF LoadsOk(r.v) THEN None ELSE Some("ValueError")
    ELSE IF r.t = "dict" THEN None
    ELSE Some("TypeError")

\* lines 98-113: the exception parse raises itself, None if it raises none
DispatchError(r) ==
    IF r.t = "None" THEN Some("ValueError")
    ELSE IF r.t = "str"
    THEN IF LoadsOk(r.v) THEN None ELSE Some("ValueError")
    ELSE IF r.t = "dict" THEN None
    ELSE Some("TypeError")

\* lines 104-111: the value handed to _parse_json_payload
Dispatched(r) == IF r.t = "str" THEN Loads(r.v) ELSE r

\* lines 98-113 and the entry of _parse_json_payload: a new call on the
\* parser object, which keeps robot_map and coord_transformer
Parse ==
    /\ jpc = "idle"
    /\ profile = "parse"
    /\ Len(history) < MaxParses
    /\ \E r \in RawInputs :
          /\ parse_raw' = r
          /\ IF DispatchError(r) # None
             THEN /\ jpc' = "error"
                  /\ jerror' = DispatchError(r)
                  /\ UNCHANGED payload
             ELSE IF Dispatched(r).t # "dict"
             THEN \* line 217: payload.get on a value that is no dict
                  /\ jpc' = "error"
                  /\ jerror' = Some("AttributeError")
                  /\ UNCHANGED payload
             ELSE /\ jpc' = "start"
                  /\ jerror' = None
                  /\ payload' = Dispatched(r).v
    /\ payload_paths' = Paths("unread", None)
    /\ grid_to_room' = EmptyDict
    /\ room_to_grid' = EmptyDict
    /\ n_info' = 0
    /\ rooms_out' = EmptyDict
    /\ n_attrs' = 0
    /\ last_attr' = NotADict
    /\ map_out' = EmptyMapData
    /\ walls' = <<>>
    /\ no_go' = <<>>
    /\ no_mop' = <<>>
    /\ n_regions' = 0
    /\ draw_calls' = 0
    /\ empty_image_calls' = 0
    /\ map_data' = <<>>
    /\ width' = 0
    /\ height' = 0
    /\ ipc' = "idle"
    /\ img_x' = 0
    /\ img_y' = 0
    /\ rooms' = EmptyRooms
    /\ room_order' = <<>>
    /\ cleaned_areas' = {}
    /\ unknown_pixels' = {}
    /\ pixels' = <<>>
    /\ writes' = <<>>
    /\ image' = None
    /\ UNCHANGED <<profile, trim, parserVars, history, yawVars, threadVars,
                   decryptVars, normVars>>

\* what the caller of parse gets: the exception, or the MapData
Outcome ==
    [ raw |-> parse_raw,
      error |-> jerror,
      result |-> IF jpc = "done" THEN Some(map_out) ELSE None,
      draw_calls |-> draw_calls ]

\* lines 107 and 111, or the exception: the call is over
ParseReturn ==
    /\ jpc \in {"done", "error"}
    /\ profile = "parse"
    /\ history' = Append(history, Outcome)
    /\ jpc' = "idle"
    /\ UNCHANGED <<parse_raw, inputVars, jerror, parserVars, tableVars,
                   rooms_out, attrVars, map_out, regionVars, callVars,
                   imgVars, yawVars, threadVars, decryptVars, normVars>>

InitParse ==
    /\ profile = "parse"
    /\ payload = OverlayHeader
    /\ jpc = "idle"
    /\ JsonLocals
    /\ ImgIdle /\ YawIdle /\ ParseIdle /\ ThreadsIdle /\ DecryptIdle /\ NormIdle

NextParse ==
    \/ Parse
    \/ JsonHeader
    \/ ImgStart
    \/ ImgScan
    \/ JsonImage
    \/ JsonRooms
    \/ JsonPoses
    \/ JsonPaths
    \/ JsonZones
    \/ JsonDraw
    \/ ParseReturn

SpecParse == InitParse /\ [][NextParse]_vars

(***************************************************************************)
(* aes_decryptor.decrypt.  Byte strings and texts are terms: the cipher,   *)
(* the digest, the padding, the hex and the zlib codecs are the library    *)
(* functions, each undone only by its inverse with the same key and IV.    *)
(***************************************************************************)
\* s.encode('latin1')
Latin1(s) == [t |-> "latin1", of |-> s]
\* text.encode('utf-8'), undone by bytes.decode('utf-8')
Utf8(s) == [t |-> "utf8", of |-> s]
\* a + b on str
Concat(a, b) == [t |-> "concat", of |-> <<a, b>>]
\* pad(data, AES.block_size), undone by unpad
Pad(data) == [t |-> "pad", of |-> data]
\* AES.new(key, AES.MODE_CBC, iv).encrypt(data)
CbcEncrypt(key, iv, data) == [t |-> "cbc", key |-> key, iv |-> iv, of |-> data]
\* bytes.hex() (any case), undone by bytes.fromhex
Hex(data) == [t |-> "hex", of |-> data]
\* hashlib.md5(data).digest()
Md5(data) == [t |-> "md5", of |-> data]
\* zlib.compress(data), undone by zlib.decompress
Deflate(data) == [t |-> "deflate", of |-> data]
\* str(b): the text b'...' for a bytes object
Repr(b) == [t |-> "repr", of |-> b]

\* lines 72 and 95
IV == [t |-> "ascii", of |-> "ABCDEF1234123412"]

\* a str with its length in characters
Key(s, n) == [s |-> s, n |-> n]

\* AES.new accepts keys of 16, 24 or 32 bytes (else ValueError)
KeyLengthOk(k) == k.n \in {16, 24, 32}

\* lines 17-23: aes_encrypt
aes_encrypt(data, key, iv) == Hex(CbcEncrypt(key, iv, Pad(data)))

\* lines 49-53: md5_hash, a hex digest
md5_hash(data) == Hex(Md5(data))

\* bytes.fromhex(text) returns (else ValueError)
FromHexOk(text) == text.t = "hex"
FromHex(text) == text.of

\* lines 92-100: gen_md5_key
gen_md5_key(m, d) ==
    md5_hash(FromHex(aes_encrypt(Latin1(Concat(m.s, d)), Latin1(m.s), IV)))

\* lines 70-77: decryptKey
DerivedKey(m, d) ==
    FromHex(md5_hash(FromHex(aes_encrypt(Latin1(Concat(m.s, d)), Latin1(m.s), IV))))

\* lines 41-44: cipher.decrypt and unpad succeed
AesDecryptOk(data, key, iv) ==
    /\ data.t = "cbc"
    /\ data.key = key /\ data.iv = iv
    /\ data.of.t = "pad"
AesDecrypt(data) == data.of.of

\* lines 25-34 on bytes: zlib.decompress(...).decode("utf-8") succeeds
InflateOk(data) == data.t = "deflate" /\ data.of.t = "utf8"
Inflate(data) == data.of.of

\* the argument encryptedMapContent: a str or a bytes object with a content
Content(type, text) == [type |-> type, text |-> text]

\* line 79: str(encryptedMapContent)
StrOf(c) == IF c.type = "str" THEN c.text ELSE Repr(c.text)

ModelKeys == { Key("model.key.16.aa", 16), Key("model.key.16.bb", 16),
               Key("roborock.vacuum.a15.24..", 24), Key("model", 5) }
DeviceIds == {"1234567", "7654321"}
Plaintexts == {"", "{}", "{\"map_id\": 1}"}

\* what a sender makes of a text: the text or its deflated form, encrypted
\* under the key of a model and a device
Ciphertexts(text) ==
    { CbcEncrypt(DerivedKey(m, d), IV, Pad(body)) :
        m \in {k \in ModelKeys : KeyLengthOk(k)}, d \in DeviceIds,
        body \in {Utf8(text), Deflate(Utf8(text))} }

\* the forms in which a ciphertext reaches decrypt
Contents(c) == {Content("str", Hex(c)), Content("bytes", Hex(c)), Content("bytes", c)}

\* lines 70-77
DecryptKey ==
    /\ xpc = "key"
    /\ IF KeyLengthOk(Get(modelKey))
       THEN /\ decryptKey' = Some(DerivedKey(Get(modelKey), Get(did)))
            /\ xpc' = "fromhex"
            /\ UNCHANGED xerror
       ELSE \* AES.new in aes_encrypt, line 21
            /\ xpc' = "error"
            /\ xerror' = Some("ValueError")
            /\ UNCHANGED decryptKey
    /\ UNCHANGED <<encryptedMapContent, modelKey, did, plaintext,
                   encryptedBytes, decrypted, inflatedString>>

\* line 79
DecryptFromHex ==
    /\ xpc = "fromhex"
    /\ IF FromHexOk(StrOf(Get(encryptedMapContent)))
       THEN /\ encryptedBytes' = Some(FromHex(StrOf(Get(encryptedMapContent))))
            /\ xpc' = "aes"
            /\ UNCHANGED xerror
       ELSE /\ xpc' = "error"
            /\ xerror' = Some("ValueError")
            /\ UNCHANGED encryptedBytes
    /\ UNCHANGED <<encryptedMapContent, modelKey, did, plaintext, decryptKey,
                   decrypted, inflatedString>>

\* line 80 and lines 36-46
DecryptAes ==
    /\ xpc = "aes"
    /\ IF AesDecryptOk(Get(encryptedBytes), Get(decryptKey), IV)
       THEN /\ decrypted' = Some(AesDecrypt(Get(encryptedBytes)))
            /\ xpc' = "inflate"
            /\ UNCHANGED xerror
       ELSE /\ xpc' = "error"
            /\ xerror' = Some("RuntimeError")
            /\ UNCHANGED decrypted
    /\ UNCHANGED <<encryptedMapContent, modelKey, did, plaintext, decryptKey,
                   encryptedBytes, inflatedString>>

\* lines 81-89
DecryptInflate ==
    /\ xpc = "inflate"
    /\ IF InflateOk(Get(decrypted))
       THEN /\ inflatedString' = Some(Inflate(Get(decrypted)))
            /\ xpc' = "done"
            /\ UNCHANGED xerror
       ELSE /\ xpc' = "error"
            /\ xerror' = Some("zlib.error")
            /\ UNCHANGED inflatedString
    /\ UNCHANGED <<encryptedMapContent, modelKey, did, plaintext, decryptKey,
                   encryptedBytes, decrypted>>

InitDecrypt ==
    /\ modelKey \in {Some(k) : k \in ModelKeys}
    /\ did \in {Some(d) : d \in DeviceIds}
    /\ plaintext \in {Some(s) : s \in Plaintexts}
    /\ encryptedMapContent \in
          {Some(c) : c \in UNION {Contents(x) : x \in Ciphertexts(Get(plaintext))}}
    /\ decryptKey = None
    /\ encryptedBytes = None
    /\ decrypted = None
    /\ inflatedString = None
    /\ xpc = "key"
    /\ xerror = None
    /\ ImgIdle /\ YawIdle /\ JsonIdle /\ ParseIdle /\ ThreadsIdle /\ NormIdle

NextDecrypt ==
    /\ \/ DecryptKey
       \/ DecryptFromHex
       \/ DecryptAes
       \/ DecryptInflate
    /\ UNCHANGED <<imgVars, yawVars, jsonVars, parseVars, threadVars, normVars>>

SpecDecrypt == InitDecrypt /\ [][NextDecrypt]_vars

(***************************************************************************)
(* XiaomiMapDataParser._normalize_json_map_pixels called on its own.       *)
(***************************************************************************)
\* payload bytes at and around every boundary of lines 184-198
NormBytes == {0, 1, 2, 3, 4, 52, 53, 63, 64, 127, 128, 255}

\* lines 163-200
NormCall ==
    /\ npc = "call"
    /\ normalized' = normalize_json_map_pixels(raw_pixels)
    /\ npc' = "done"
    /\ UNCHANGED <<raw_pixels, imgVars, yawVars, jsonVars, parseVars,
                   threadVars, decryptVars>>

InitNorm ==
    /\ \E n \in 0..MaxRaw : raw_pixels \in [1..n -> NormBytes]
    /\ normalized = <<>>
    /\ npc = "call"
    /\ ImgIdle /\ YawIdle /\ JsonIdle /\ ParseIdle /\ ThreadsIdle /\ DecryptIdle

NextNorm == NormCall

SpecNorm == InitNorm /\ [][NextNorm]_vars

(***************************************************************************)
(* Claims about XiaomiImageParser.parse (checked under SpecImage).         *)
(***************************************************************************)
\* the trimmed region in untrimmed source coordinates <<x, y>>
Region ==
    { c \in (0..(width - 1)) \X (0..(height - 1)) :
        /\ trim_left <= c[1] /\ c[1] < trim_left + trimmed_width
        /\ trim_bottom <= c[2] /\ c[2] < trim_bottom + trimmed_height }

\* the byte of the row-major buffer at column c[1] of row c[2]
SourceByte(c) == map_data[c[2] * width + c[1] + 1]

\* byte v stands for room r: r itself, or r + 50 while r is being cleaned
ClassifiedAs(v, r) ==
    \/ 10 <= v /\ v <= 59 /\ v = r
    \/ 60 <= v /\ v <= 109 /\ v - 50 = r

RoomPixels(r) == { c \in Region : ClassifiedAs(SourceByte(c), r) }

Scanned == ipc = "done" /\ image # None

BoxTight(r) ==
    LET b == rooms[r]
        S == RoomPixels(r)
    IN /\ S # {}
       /\ \A c \in S : b[1] <= c[1] /\ c[1] <= b[3] /\ b[2] <= c[2] /\ c[2] <= b[4]
       /\ \E c \in S : c[1] = b[1]
       /\ \E c \in S : c[2] = b[2]
       /\ \E c \in S : c[1] = b[3]
       /\ \E c \in S : c[2] = b[4]

BoxOnlyGrows ==
    \A r \in DOMAIN rooms :
        /\ r \in DOMAIN rooms'
        /\ rooms'[r][1] <= rooms[r][1] /\ rooms'[r][2] <= rooms[r][2]
        /\ rooms'[r][3] >= rooms[r][3] /\ rooms'[r][4] >= rooms[r][4]

\* C1: after the scan every returned box is the tightest rectangle, in
\* untrimmed source coordinates, over the pixels of the trimmed region
\* classified as its room, and during the scan a box only ever grows.
C1_BoxTightAndMonotone ==
    /\ [](Scanned => \A r \in DOMAIN rooms : BoxTight(r))
    /\ [][BoxOnlyGrows]_vars

\* a finished scan with a trim offset whose room box was expanded on both axes
C1_Witness ==
    /\ Scanned
    /\ \E r \in DOMAIN rooms : rooms[r][1] < rooms[r][3] /\ rooms[r][2] < rooms[r][4]

\* C2: every byte in [60,109] of the trimmed region puts byte - 50 into the
\* cleaned set and among the keys of the boxes, and no key and no cleaned
\* number is ever outside [10,59].
C2_Folding ==
    /\ Scanned =>
          \A c \in Region :
              (60 <= SourceByte(c) /\ SourceByte(c) <= 109) =>
                  /\ SourceByte(c) - 50 \in cleaned_areas
                  /\ SourceByte(c) - 50 \in DOMAIN rooms
    /\ \A r \in DOMAIN rooms \cup cleaned_areas : 10 <= r /\ r <= 59

\* a finished scan that read the bytes 60 and 109 inside the trimmed region
C2_Witness ==
    /\ Scanned
    /\ \E c \in Region : SourceByte(c) = 109
    /\ \E c \in Region : SourceByte(c) = 60
    /\ cleaned_areas = {10, 59}

\* C3: the unscaled image is the vertical flip of the trimmed source region:
\* pixel (ix, iy) carries the classification of the byte at row
\* trimBottom + (trimmedHeight - 1 - iy), column trimLeft + ix, and every
\* pixel is written exactly once.
C3_VerticalFlip ==
    Scanned =>
        \A c \in ImageCoords(trimmed_width, trimmed_height) :
            /\ pixels[c] = ColorOf(SourceByte(<<trim_left + c[1],
                                  trim_bottom + (trimmed_height - 1 - c[2])>>))
            /\ writes[c] = 1

\* a finished scan of a region two rows high whose rows differ
C3_Witness ==
    /\ Scanned
    /\ trimmed_height = 2
    /\ trim_left > 0
    /\ pixels[<<0, 0>>] # pixels[<<0, 1>>]

\* C4 (as claimed): trim percentages summing to 100 on one axis give no
\* image, no rooms and no cleaned rooms, for every width and height.
C4_TrimToZero ==
    (ipc = "done" /\ (trim.left + trim.right = 100 \/ trim.top + trim.bottom = 100))
        => (image = None /\ DOMAIN rooms = {} /\ cleaned_areas = {})


(***************************************************************************)
(* Claims about _json_yaw_to_degrees (checked under SpecYaw).              *)
(***************************************************************************)
\* C8 (as claimed): for every numeric yaw the returned angle lies in [0,180).
C8_AngleInRange ==
    (ypc = "done" /\ IsNumeric(yaw)) => (0 <= angle /\ angle < 180000)

\* C9 (as claimed): 1.57 gives about 90.0, 9000 gives 0.0, 45 gives 45.0 and
\* a non-numeric input gives 0.0.
C9_ScenariosAsClaimed ==
    ypc = "done" =>
        /\ yaw = Number(1570) => (89900 <= angle /\ angle <= 90100)
        /\ yaw = Number(9000000) => angle = 0
        /\ yaw = Number(45000) => angle = 45000
        /\ yaw = NotANumber => angle = 0

\* C9 (amended): 1.57 gives about 90.0, 9000 gives (9000/100) mod 180 = 90.0,
\* 45 gives 45.0 and a non-numeric input gives 0.0.
C9_Scenarios ==
    ypc = "done" =>
        /\ yaw = Number(1570) => (89900 <= angle /\ angle <= 90100)
        /\ yaw = Number(9000000) => angle = 90000
        /\ yaw = Number(45000) => angle = 45000
        /\ yaw = NotANumber => angle = 0

\* the call with the centi-degree input 9000 has returned
C9_Witness == ypc = "done" /\ yaw = Number(9000000)

(***************************************************************************)
(* Claims about _parse_json_payload (checked under SpecJson).              *)
(***************************************************************************)
\* C5: a payload in which width, height or map_data is absent returns an
\* empty MapData (no image, no rooms) without raising, without calling the
\* classifier and without calling the renderer.
C5_MissingMapGivesEmptyModel ==
    ( /\ jpc \notin {"idle", "start"}
      /\ \/ payload.width = None
         \/ payload.height = None
         \/ payload.map_data.kind = "absent" )
    => ( /\ jpc = "done"
         /\ jerror = None
         /\ map_out = EmptyMapData
         /\ ipc = "idle"
         /\ draw_calls = 0
         /\ empty_image_calls = 0 )

\* the call has returned for a payload with map_data present and width missing
C5_Witness ==
    /\ jpc = "done"
    /\ payload.width = None
    /\ payload.height # None
    /\ payload.map_data.kind = "ok"

\* the rooms of the MapData have been built from the classifier's boxes
RoomsBuilt == jpc \in {"room_attrs", "paths", "fb_regions", "draw", "done"}

\* a classifier box converted to world coordinates with the payload's header
WorldBox(box) ==
    << payload.origin_x + box[1] * payload.resolution,
       payload.origin_y + box[2] * payload.resolution,
       payload.origin_x + box[3] * payload.resolution,
       payload.origin_y + box[4] * payload.resolution >>

RoomBounds(room) == <<room.x0, room.y0, room.x1, room.y1>>

\* the RoomId of pixel room number n: gridToRoom[n - 10 + 3], else n - 10 + 3
RoomIdOf(n) ==
    IF (n - 10 + 3) \in DOMAIN grid_to_room THEN grid_to_room[n - 10 + 3]
    ELSE n - 10 + 3

\* C6 (as claimed): every classifier box of room number n is held under its
\* RoomId with exactly that box's corners in world coordinates; no box is
\* lost or replaced by another room's box.
C6_EveryBoxKept ==
    RoomsBuilt =>
        \A n \in DOMAIN rooms :
            /\ RoomIdOf(n) \in DOMAIN rooms_out
            /\ RoomBounds(rooms_out[RoomIdOf(n)]) = WorldBox(rooms[n])

\* the step that reads one room_attrs entry
AttrStep == jpc = "room_attrs" /\ n_attrs' = n_attrs + 1

\* rooms_out after the step: room t got the entry's name and label position,
\* nothing else changed
OnlyNamed(t, r) ==
    /\ DOMAIN rooms_out' = DOMAIN rooms_out
    /\ \A k \in DOMAIN rooms_out :
          rooms_out'[k] =
              IF k = t
              THEN [rooms_out[k] EXCEPT !.name = NameOf(r), !.pos_x = PosXOf(r),
                                        !.pos_y = PosYOf(r)]
              ELSE rooms_out[k]

\* C7: a room_attrs entry with numeric identifier rid names the first of rid,
\* gridToRoom[rid], roomToGrid[rid] that is a key of the output rooms, and no
\* room when none is; with gridToRoom = {3: 100} and pixel room 10 present,
\* room_id = 100 names the room whose GridId is 3.
C7_ReconciliationOrder ==
    [][ (AttrStep /\ AttrUsable(last_attr')) =>
          LET r == last_attr'
              rid == IntOf(RidOf(r))
              keys == DOMAIN rooms_out
          IN /\ IF rid \in keys THEN OnlyNamed(rid, r)
                ELSE IF rid \in DOMAIN grid_to_room /\ grid_to_room[rid] \in keys
                THEN OnlyNamed(grid_to_room[rid], r)
                ELSE IF rid \in DOMAIN room_to_grid /\ room_to_grid[rid] \in keys
                THEN OnlyNamed(room_to_grid[rid], r)
                ELSE rooms_out' = rooms_out
             /\ ( /\ DOMAIN grid_to_room = {3} /\ grid_to_room[3] = 100
                  /\ 10 \in DOMAIN rooms
                  /\ r.room_id = JInt(100) )
                => ( /\ rooms_out'[100].name = NameOf(r)
                     /\ RoomBounds(rooms_out'[100]) = WorldBox(rooms[10]) )
      ]_vars

\* an entry whose rid is no room key, with gridToRoom[rid] and roomToGrid[rid]
\* two different room keys, has named the room gridToRoom[rid]
C7_Witness ==
    /\ jpc = "room_attrs"
    /\ n_attrs = 1
    /\ AttrUsable(last_attr)
    /\ LET rid == IntOf(RidOf(last_attr))
       IN /\ rid \notin DOMAIN rooms_out
          /\ rid \in DOMAIN grid_to_room /\ grid_to_room[rid] \in DOMAIN rooms_out
          /\ rid \in DOMAIN room_to_grid /\ room_to_grid[rid] \in DOMAIN rooms_out
          /\ grid_to_room[rid] # room_to_grid[rid]
          /\ rooms_out[grid_to_room[rid]].name = NameOf(last_attr)
          /\ rooms_out[room_to_grid[rid]].name = None

\* C10 (as claimed): malformed metadata never aborts a parse; only map_data
\* that cannot be decoded does.
C10_MetadataNeverAborts ==
    /\ jpc = "error" => jerror = Some("RuntimeError")
    /\ jerror # None => payload.map_data.kind = "corrupt"

\* every field of the MapData that the parse assigns before drawing is set
OverlaysAssigned ==
    /\ map_out.rooms # None
    /\ map_out.cleaned_rooms # None
    /\ map_out.walls # None
    /\ map_out.no_go_areas # None
    /\ map_out.no_mopping_areas # None
    /\ map_out.zones # None

\* C11 (as claimed): a parse that returns has called draw_map exactly once
\* when the classifier produced an image, and not at all when it produced
\* none (then only create_empty_map_image was called); draw_map is called
\* after rooms, cleaned rooms, poses, paths, walls, areas and zones are set.
C11_DrawOnlyOnClassifierImage ==
    /\ (jpc = "done" /\ map_out.image # None) =>
          IF image # None
          THEN draw_calls = 1 /\ empty_image_calls = 0
          ELSE draw_calls = 0 /\ empty_image_calls = 1
    /\ draw_calls > 0 => OverlaysAssigned
    /\ draw_calls <= 1

(***************************************************************************)
(* Claims about concurrent calls (checked under SpecThreads).              *)
(***************************************************************************)
\* the rooms a call for payload p returns when it runs alone
SoloRooms(p) ==
    LET c == Classifier(normalize_json_map_pixels(p.map_data.bytes),
                        Get(p.width), Get(p.height), trim)
    IN BuildRooms(c.order, c.rooms, EmptyDict, Transformer(MapHead(p)), EmptyDict)

\* C12 (as claimed): of two calls for different maps running concurrently
\* on one parser object, each returns what it returns when run alone: it
\* does not raise, its rooms are computed with its own header, and its image
\* carries its own transformer.
C12_CallsDoNotInterfere ==
    \A t \in DOMAIN threads :
        /\ threads[t].pc # "error"
        /\ threads[t].pc = "done" =>
              /\ threads[t].rooms_out = SoloRooms(threads[t].payload)
              /\ threads[t].img_transformation =
                     Transformer(MapHead(threads[t].payload))

(***************************************************************************)
(* Claims about repeated parse calls (checked under SpecParse).            *)
(***************************************************************************)
\* C13: two calls of parse on one parser with identical input return
\* identical results (the same exception, or MapData with identical rooms,
\* cleaned rooms, poses, paths, walls, areas, zones and image dimensions),
\* whatever was parsed before or in between.
C13_SameInputSameResult ==
    \A i, j \in DOMAIN history :
        history[i].raw = history[j].raw => history[i] = history[j]

\* a map was parsed, then the same map at another origin, then the first
\* again; the first two calls returned rooms with different bounds
C13_Witness ==
    /\ Len(history) = 3
    /\ history[1].raw = history[3].raw
    /\ history[1].result # None /\ history[2].result # None
    /\ Get(history[1].result).rooms # None
    /\ Get(history[2].result).rooms # None
    /\ DOMAIN Get(Get(history[1].result).rooms) # {}
    /\ DOMAIN Get(Get(history[2].result).rooms) # {}
    /\ Get(history[1].result).rooms # Get(history[2].result).rooms
    /\ history[3].result = history[1].result

\* the call's argument is a dict, or a str that spells a JSON object
IsObjectInput(r) ==
    \/ r.t = "dict"
    \/ r.t = "str" /\ LoadsOk(r.v) /\ Loads(r.v).t = "dict"

\* a str and the dict it decodes to have had the same outcome
SameAsDecoded(h) ==
    \A j \in DOMAIN history :
        (h.raw.t = "str" /\ LoadsOk(h.raw.v) /\ history[j].raw = Loads(h.raw.v)
            /\ history[j].raw.t = "dict")
        => /\ history[j].error = h.error
           /\ history[j].result = h.result

\* C14 (as claimed): a str that is no valid JSON is rejected with ValueError
\* (MalformedPayload); every input that is neither a str nor a dict, None
\* included, is rejected with TypeError (UnsupportedInputType); a JSON str
\* and the dict it decodes to give the same MapData; a rejected call returns
\* no MapData.
C14_DispatchAsClaimed ==
    \A i \in DOMAIN history :
        LET h == history[i]
        IN /\ (h.raw.t = "str" /\ ~LoadsOk(h.raw.v)) => h.error = Some("ValueError")
           /\ h.raw.t \notin {"str", "dict"} => h.error = Some("TypeError")
           /\ SameAsDecoded(h)
           /\ h.error # None => h.result = None

\* C14 (amended): as above, except that None is rejected with ValueError,
\* like a str that is no valid JSON; the dispatch raises nothing else, and a
\* str that spells a JSON value other than an object is handed on to
\* _parse_json_payload, which fails on it with AttributeError.
C14_Dispatch ==
    \A i \in DOMAIN history :
        LET h == history[i]
        IN /\ (h.raw.t = "str" /\ ~LoadsOk(h.raw.v)) => h.error = Some("ValueError")
           /\ h.raw.t = "None" => h.error = Some("ValueError")
           /\ h.raw.t \notin {"str", "dict", "None"} => h.error = Some("TypeError")
           /\ IsObjectInput(h.raw) => h.error \in {None, Some("RuntimeError")}
           /\ (h.raw.t = "str" /\ LoadsOk(h.raw.v) /\ ~IsObjectInput(h.raw))
                 => h.error = Some("AttributeError")
           /\ SameAsDecoded(h)
           /\ h.error # None => h.result = None

\* None was rejected, then a JSON str was parsed, then the dict it spells,
\* which gave a MapData with rooms
C14_Witness ==
    /\ Len(history) = 3
    /\ history[1].raw = RawNone
    /\ history[1].error = Some("ValueError")
    /\ history[2].raw.t = "str" /\ LoadsOk(history[2].raw.v)
    /\ history[3].raw = Loads(history[2].raw.v)
    /\ history[3].result # None
    /\ Get(history[3].result).rooms # None
    /\ DOMAIN Get(Get(history[3].result).rooms) # {}
    /\ history[2].result = history[3].result

(***************************************************************************)
(* Claims about decrypt (checked under SpecDecrypt).                       *)
(***************************************************************************)
\* the argument carries the text, deflated, encrypted under the key derived
\* from the call's own modelKey and did
SentToThisDevice ==
    /\ KeyLengthOk(Get(modelKey))
    /\ LET c == CbcEncrypt(DerivedKey(Get(modelKey), Get(did)), IV,
                            Pad(Deflate(Utf8(Get(plaintext)))))
       IN Get(encryptedMapContent).text \in {c, Hex(c)}

\* C15 (as claimed): a text encrypted under the key derived from
\* (modelKey, deviceId) by the two-stage scheme comes back from the full
\* decrypt with the same modelKey and deviceId exactly, and the key used is
\* a function of (modelKey, deviceId) alone.
C15_RoundTrip ==
    /\ decryptKey # None => decryptKey = Some(DerivedKey(Get(modelKey), Get(did)))
    /\ (SentToThisDevice /\ xpc \in {"done", "error"}) =>
          /\ xerror = None
          /\ inflatedString = plaintext

(***************************************************************************)
(* Claims about _normalize_json_map_pixels (checked under SpecNorm).       *)
(***************************************************************************)
\* C16 (as claimed): the output is as long as the input; byte 0 becomes 0,
\* 1 and 2 become 127, every value in 3..63 becomes a room number in
\* [10, 59], every other value becomes 128; no output byte lies in the
\* being-cleaned range [60, 109].
C16_NormalizedAlphabet ==
    npc = "done" =>
        /\ Len(normalized) = Len(raw_pixels)
        /\ \A i \in 1..Len(raw_pixels) :
              LET v == raw_pixels[i]
                  o == normalized[i]
              IN /\ v = 0 => o = 0
                 /\ v \in {1, 2} => o = 127
                 /\ (3 <= v /\ v <= 63) => (MAP_ROOM_MIN <= o /\ o <= MAP_ROOM_MAX)
                 /\ (v > 63) => o = 128
                 /\ ~(MAP_SELECTED_ROOM_MIN <= o /\ o <= MAP_SELECTED_ROOM_MAX)

(***************************************************************************)
(* Further claims about _parse_json_payload (checked under SpecJson).      *)
(***************************************************************************)
\* the classifier has returned to _parse_json_payload
Classified ==
    jpc \in {"room_info", "room_attrs", "paths", "fb_regions", "draw", "done"}

\* the payload's byte at column c[1] of row c[2]
PayloadByte(c) == payload.map_data.bytes[c[2] * width + c[1] + 1]

InBox(c, box) ==
    box[1] <= c[1] /\ c[1] <= box[3] /\ box[2] <= c[2] /\ c[2] <= box[4]

\* C17 (as claimed): every payload room byte g in 3..63 of the trimmed
\* region has a classifier room number n with n - 10 + 3 = g whose box holds
\* the pixel, so distinct grid ids never share a box or a Room; and no room is
\* reported as cleaned, since the payload's bytes mark none.
C17_GridIdsOneToOne ==
    Classified =>
        /\ \A c \in Region :
              (3 <= PayloadByte(c) /\ PayloadByte(c) <= 63) =>
                  \E n \in DOMAIN rooms :
                      /\ room_number_to_grid_id(n) = PayloadByte(c)
                      /\ InBox(c, rooms[n])
        /\ cleaned_areas = {}
        /\ map_out.cleaned_rooms \in {None, Some({})}

\* the entries of the source list that are dicts, in order
DictEntries(src) == LET IsDict(p) == p.dict IN SelectSeq(src, IsDict)

\* those of them that carry "sweep_mop_mode"
MopEntries(src) ==
    LET HasMop(p) == p.sweep_mop_mode IN SelectSeq(DictEntries(src), HasMop)

\* field is absent for no entries, else the Path of their points in order
IsPathOf(field, entries) ==
    IF entries = <<>> THEN field = None
    ELSE /\ field # None
         /\ Get(field).size = Len(entries)
         /\ Get(field).path = <<[i \in 1..Len(entries) |-> PointOfPath(entries[i])]>>

\* C18: after a parse whose "paths" gave a list of points, the path holds
\* the point of every dict entry of the list in order, the mop path is the
\* subsequence of those whose entry carries "sweep_mop_mode", and each is
\* absent when its sequence is empty.
C18_MopPathIsSubsequence ==
    (jpc \in {"fb_regions", "draw", "done"} /\ PointsSrc(payload_paths) # None) =>
        LET src == Get(PointsSrc(payload_paths))
        IN /\ IsPathOf(map_out.path, DictEntries(src))
           /\ IsPathOf(map_out.mop_path, MopEntries(src))

\* a list of three points, the first and the last with the marker
C18_Witness ==
    /\ jpc = "done"
    /\ PointsSrc(payload_paths) # None
    /\ Len(Get(PointsSrc(payload_paths))) = 3
    /\ map_out.path # None /\ Get(map_out.path).size = 3
    /\ map_out.mop_path # None /\ Get(map_out.mop_path).size = 2
    /\ Get(map_out.mop_path).path[1][2].x = 5

\* C19: after a parse that returns a MapData with rooms, every RoomId in its
\* cleaned-room set is a key of its rooms.
C19_CleanedRoomsAreRooms ==
    (jpc = "done" /\ map_out.cleaned_rooms # None) =>
        Get(map_out.cleaned_rooms) \subseteq DOMAIN Get(map_out.rooms)

\* a parse has returned with a cleaned room, the table mapping two grid ids
\* to that room's id
C19_Witness ==
    /\ jpc = "done"
    /\ map_out.cleaned_rooms # None
    /\ \E r \in Get(map_out.cleaned_rooms) :
          /\ r \in DOMAIN Get(map_out.rooms)
          /\ \E g1, g2 \in DOMAIN grid_to_room :
                g1 # g2 /\ grid_to_room[g1] = r /\ grid_to_room[g2] = r

====
